---- MODULE Spec2Model ----
(***************************************************************************)
(* Model of medium_api/medium.py: the retrying GET of MediumClient         *)
(* (__get_resp), its call counter and budget snapshot, the callers user,   *)
(* users, publication and related_tags, the bulk fetchers fetch_articles / *)
(* fetch_users that drive save_info / save_content operations on a         *)
(* ThreadPoolExecutor, and extract_article_id.                             *)
(*                                                                         *)
(* Thread 0 is the caller's thread; thread k >= 1 executes the k-th future *)
(* submitted by the bulk fetch in progress.                                *)
(***************************************************************************)
EXTENDS Integers, Sequences, FiniteSets, TLC

\* ------------------------------------------------------------------ bounds
\* the resource handles a caller may pass to a bulk fetch
Handles == {"h1", "h2"}
\* longest input list of a bulk fetch
MaxLen == 2
\* longest input list of a bulk fetch that asks for the content as well
MaxContentLen == 1
\* number of direct requests a caller issues one after the other
MaxGets == 2
\* soft-error responses the upstream service emits while a bulk fetch runs
MaxBulkSoft == 1
\* operations submitted by a bulk fetch that outgrows the worker pool
MaxPoolOps == 101
\* calls of user, users, publication, related_tags made one after the other
MaxCalls == 2
\* the values a caller passes for `calls` when it constructs the client
CallsArgs == {0, 1}
\* the slugs / usernames / tags and the ids a caller passes
Slugs == {"nishu-jain"}
Ids == {"1985b61817c3", "98111c9905da"}
\* longest argument of extract_article_id, in characters of the alphabet
MaxUrlLen == 5
\* longest list of usernames or ids passed to users_info / user_articles
MaxNames == 3
\* the usernames passed to them, with the id the service holds for each
Usernames == {"nishu-jain", "arainboldt"}

\* -------------------------------------------------------- program constants
\* ThreadPoolExecutor(max_workers=100)
max_workers == 100
\* time.sleep(5)
SleepSecs == 5
\* if retries < 3
RetryLimit == 3

Main == 0
MaxFutures == MaxLen + MaxContentLen
Threads == 0..MaxFutures

VARIABLES
    hasCalls,   \* the client object has an attribute `calls`
    calls,      \* self.calls, when it exists
    snapshot,   \* self.call_counts, self.call_count_limit, self.remaining_calls
    primary,    \* per handle: title (Article) / fullname (User) is not None
    content,    \* per handle: the article's content was saved
    fr,         \* per thread: the frame of its __get_resp call
    mpc,        \* position of the caller's thread
    args,       \* arguments of the facade operation in progress
    idx,        \* position of the submitting comprehension in the input list
    futs,       \* future_to_url: the futures submitted so far, in order
    exc,        \* the future whose result() raised in the caller's thread (0: none)
    mres,       \* how the last facade operation ended
    softLeft,   \* soft-error responses the service may still emit
    nops,       \* history: direct requests started
    n200,       \* history: status-200 responses of the direct requests that ended
    nsucc,      \* history: direct requests that returned a successful body
    seen,       \* history: per examined input position, primary field unset
    primary0,   \* history: primary when the bulk fetch was called
    calls_arg,  \* the argument `calls` the constructor was given
    hcalls,     \* history: the calls of user, users, publication, related_tags
    outs,       \* history: how each of these calls ended
    first,      \* history: the first of two bulk fetches on the same list
    pool,       \* a large bulk fetch: operations submitted, started, finished
    extract,    \* extract_article_id: its argument and what it returned
    sink        \* the last call of users_info / user_articles

vars == <<hasCalls, calls, snapshot, primary, content, fr, mpc, args, idx, futs, exc,
          mres, softLeft, nops, n200, nsucc, seen, primary0, calls_arg, hcalls, outs,
          first, pool, extract, sink>>

hist == <<nops, n200, nsucc>>
\* what the constructor leaves behind, never assigned afterwards
ctor == <<hasCalls, calls_arg>>
facade == <<hcalls, outs, extract, sink>>

\* --------------------------------------------------------------- __get_resp
NoRet == [body |-> "none", status |-> 0]
IdleFrame == [pc |-> "idle", retries |-> 0, tmp |-> 0, error |-> FALSE,
              trace |-> <<>>, printed |-> <<>>, ret |-> NoRet]
\* entry of __get_resp(endpoint) with the default retries=0
EntryFrame == [IdleFrame EXCEPT !.pc = "request"]

\* what a frame's trace records: a transport request with the response it got
\* (status 0: the request raised), and a sleep with its length
ReqEvent(status, error) ==
    [ev |-> "request", secs |-> 0, status |-> status, error |-> error]
SleepEvent == [ev |-> "sleep", secs |-> SleepSecs, status |-> 0, error |-> FALSE]

\* a line printed by the call, and the event of the trace it reports
Line(text, about) == [text |-> text, about |-> about]

Requests(trace) == {i \in 1..Len(trace) : trace[i].ev = "request"}
Sleeps(trace) == {i \in 1..Len(trace) : trace[i].ev = "sleep"}
Soft(e) == e.ev = "request" /\ e.status = 200 /\ e.error

\* the responses conn.getresponse() can deliver
Responses == { [status |-> 200, error |-> FALSE],
               [status |-> 200, error |-> TRUE],
               [status |-> 500, error |-> FALSE] }

\* if status == 200
Is200Lenient(status) == TRUE
Is200(status) == status = 200

\* self.calls += 1, the value stored
IncrementedNot(tmp) == tmp
Incremented(tmp) == tmp + 1

\* if retries < 3
CanRetryOnceMore(retries) == retries < RetryLimit + 1
CanRetry(retries) == retries < RetryLimit

\* the branch taken after a 200 response was counted and decoded
After200Raising(error, retries) ==
    IF ~error THEN [pc |-> "returned", ret |-> [body |-> "json", status |-> 200]]
    ELSE IF CanRetry(retries) THEN [pc |-> "sleep", ret |-> NoRet]
    ELSE [pc |-> "raised", ret |-> NoRet]
After200(error, retries) ==
    IF ~error THEN [pc |-> "returned", ret |-> [body |-> "json", status |-> 200]]
    ELSE IF CanRetry(retries) THEN [pc |-> "sleep", ret |-> NoRet]
    ELSE [pc |-> "returned", ret |-> [body |-> "empty", status |-> 200]]

\* save_info / save_content once its __get_resp call is over: a body is
\* copied into the handle's fields, an empty mapping leaves them absent, an
\* exception becomes the future's exception
Settled(fut, f) ==
    [fut EXCEPT !.st = IF f.pc = "raised" THEN "exc" ELSE "ok", !.got = f.ret.body]

\* thread t's __get_resp call reaches frame f; when that ends the call of a
\* pool thread, the operation it runs finishes with it
Reach(t, f) ==
    IF t # Main /\ f.pc \in {"returned", "raised"}
    THEN /\ fr' = [fr EXCEPT ![t] = IdleFrame]
         /\ futs' = [futs EXCEPT ![t] = Settled(@, f)]
         /\ primary' = IF futs[t].fn = "save_info" /\ f.ret.body = "json"
                       THEN [primary EXCEPT ![futs[t].h] = TRUE] ELSE primary
         /\ content' = IF futs[t].fn = "save_content" /\ f.ret.body = "json"
                       THEN [content EXCEPT ![futs[t].h] = TRUE] ELSE content
    ELSE /\ fr' = [fr EXCEPT ![t] = f]
         /\ UNCHANGED <<futs, primary, content>>

\* conn.request(...); resp = conn.getresponse(); data = resp.read();
\* a status other than 200 is printed and returned with the empty mapping,
\* and on status 200 self.calls += 1 begins: self.calls is read, which raises
\* AttributeError on an object without that attribute
GetRequest(t) ==
    /\ fr[t].pc = "request"
    /\ \E r \in Responses :
        /\ (r.error /\ t # Main) => softLeft > 0
        /\ softLeft' = IF r.error /\ t # Main THEN softLeft - 1 ELSE softLeft
        /\ LET tr == Append(fr[t].trace, ReqEvent(r.status, r.error)) IN
            IF Is200(r.status) /\ hasCalls
            THEN Reach(t, [fr[t] EXCEPT !.pc = "store", !.error = r.error,
                                        !.tmp = calls, !.trace = tr])
            ELSE IF Is200(r.status)
            THEN Reach(t, [fr[t] EXCEPT !.pc = "raised", !.trace = tr])
            ELSE Reach(t, [fr[t] EXCEPT !.pc = "returned", !.trace = tr,
                              !.printed = @ \o <<Line("[ERROR]: Status Code", Len(tr)),
                                                 Line("[ERROR]: Response", Len(tr))>>,
                              !.ret = [body |-> "empty", status |-> r.status]])
    /\ UNCHANGED <<ctor, facade, first, pool, calls, snapshot, mpc, args, idx,
                   exc, mres, hist, seen, primary0>>

\* conn.request(...) or conn.getresponse() raises (no connection)
GetRequestRaises(t) ==
    /\ fr[t].pc = "request"
    /\ Reach(t, [fr[t] EXCEPT !.pc = "raised",
                              !.trace = Append(@, ReqEvent(0, FALSE))])
    /\ UNCHANGED <<ctor, facade, first, pool, calls, snapshot, mpc, args, idx,
                   exc, mres, softLeft, hist, seen, primary0>>

\* self.calls += 1 ends: the sum is written; then loads(data) and the
\* error-key branch: return the body, or time.sleep(5) and
\* return self.__get_resp(endpoint, retries=retries+1), or print the body and
\* give up
GetStoreCalls(t) ==
    /\ fr[t].pc = "store"
    /\ calls' = Incremented(fr[t].tmp)
    /\ LET b == After200(fr[t].error, fr[t].retries) IN
        IF b.pc = "sleep"
        THEN Reach(t, [fr[t] EXCEPT !.pc = "request", !.retries = @ + 1,
                                    !.trace = Append(@, SleepEvent)])
        ELSE Reach(t, [fr[t] EXCEPT !.pc = b.pc, !.ret = b.ret,
                                    !.printed = IF fr[t].error /\ b.pc = "returned"
                                                THEN Append(@, Line("[ERROR]: Response",
                                                                    Len(fr[t].trace)))
                                                ELSE @])
    /\ UNCHANGED <<ctor, facade, first, pool, snapshot, mpc, args, idx, exc,
                   mres, softLeft, hist, seen, primary0>>

\* ------------------------------------------- direct callers of __get_resp
\* resp, _ = self.__get_resp(...) in user, users, publication, related_tags
MainGet ==
    /\ mpc = "idle"
    /\ nops < MaxGets
    /\ mpc' = "get"
    /\ fr' = [fr EXCEPT ![Main] = EntryFrame]
    /\ mres' = "none"
    /\ nops' = nops + 1
    /\ UNCHANGED <<ctor, facade, first, pool, calls, snapshot, primary, content,
                   args, idx, futs, exc, softLeft, n200, nsucc, seen, primary0>>

\* the direct call hands its result (or its exception) to the caller
MainGetReturn ==
    /\ mpc = "get"
    /\ fr[Main].pc \in {"returned", "raised"}
    /\ mpc' = "idle"
    /\ mres' = fr[Main].pc
    /\ LET tr == fr[Main].trace IN
        n200' = n200 + Cardinality({i \in Requests(tr) : tr[i].status = 200})
    /\ nsucc' = IF fr[Main].ret.body = "json" THEN nsucc + 1 ELSE nsucc
    /\ UNCHANGED <<ctor, facade, first, pool, calls, snapshot, primary, content,
                   fr, args, idx, futs, exc, softLeft, nops, seen, primary0>>

\* ------------------------------ user, users, publication, related_tags
\* a keyword argument left at its default
None == "None"

\* the id the service holds for a slug / username, the value of the key 'id'
\* ('publication_id') in the body of a successful id_for response
ServiceId == [s \in Slugs |-> "1985b61817c3"]

\* if <id> is not None: ... elif <slug> is not None: ... else: ...
BranchSlugFirst(slug, id) ==
    IF slug # None THEN "lookup" ELSE IF id # None THEN "construct" ELSE "missing"
Branch(slug, id) ==
    IF id # None THEN "construct" ELSE IF slug # None THEN "lookup" ELSE "missing"

\* how a call ends: with User(user_id=id, ...) / Publication(publication_id=id,
\* ...), with a plain value, or with an exception
Handle(id) == [kind |-> "handle", id |-> id, err |-> None, printed |-> FALSE]
Value(kind, printed) == [kind |-> kind, id |-> None, err |-> None, printed |-> printed]
Raised(err) == [kind |-> "raised", id |-> None, err |-> err, printed |-> FALSE]

\* the call ends without a request
EndCall(out) ==
    /\ outs' = Append(outs, out)
    /\ mres' = IF out.kind = "raised" THEN "raised" ELSE "returned"
    /\ UNCHANGED <<mpc, fr, nops>>

\* resp, _ = self.__get_resp(f'/user/id_for/{str(username)}'), or
\* f'/publication/id_for/{str(publication_slug)}'
StartLookup ==
    /\ mpc' = "lookup"
    /\ fr' = [fr EXCEPT ![Main] = EntryFrame]
    /\ nops' = nops + 1
    /\ mres' = "none"
    /\ UNCHANGED outs

\* user, users and publication: the assert of users, then the three branches
IdentityCall(op, slug, id) ==
    /\ mpc = "idle"
    /\ Len(hcalls) < MaxCalls
    /\ hcalls' = Append(hcalls, [op |-> op, slug |-> slug, id |-> id, kw |-> None])
    /\ IF op = "users" /\ slug = None /\ id = None
           THEN EndCall(Raised("AssertionError"))
       ELSE IF Branch(slug, id) = "construct" THEN EndCall(Handle(id))
       ELSE IF Branch(slug, id) = "lookup" THEN StartLookup
       ELSE EndCall(Value("None", TRUE))
    /\ UNCHANGED <<ctor, first, pool, extract, sink, calls, snapshot, primary,
                   content, args, idx, futs, exc, softLeft, n200, nsucc, seen,
                   primary0>>

\* def user(self, username=None, user_id=None, save_info=True)
User == \E slug \in Slugs \cup {None}, id \in Ids \cup {None} :
            IdentityCall("user", slug, id)

\* def users(self, username=None, user_id=None, save_info=True)
Users == \E slug \in Slugs \cup {None}, id \in Ids \cup {None} :
            IdentityCall("users", slug, id)

\* def publication(self, publication_slug=None, publication_id=None, save_info=True)
Publication == \E slug \in Slugs \cup {None}, id \in Ids \cup {None} :
            IdentityCall("publication", slug, id)

\* user_id = resp['id'] (publication_id = resp['publication_id']) and the
\* handle's construction; the empty mapping has no such key, and an exception
\* of __get_resp passes through
LookupReturn ==
    /\ mpc = "lookup"
    /\ fr[Main].pc \in {"returned", "raised"}
    /\ LET call == hcalls[Len(hcalls)]
           out == IF fr[Main].pc = "raised"
                      THEN Raised(IF fr[Main].trace[Len(fr[Main].trace)].status = 0
                                  THEN "OSError" ELSE "AttributeError")
                  ELSE IF fr[Main].ret.body = "json" THEN Handle(ServiceId[call.slug])
                  ELSE Raised("KeyError")
       IN  /\ outs' = Append(outs, out)
           /\ mres' = IF out.kind = "raised" THEN "raised" ELSE "returned"
    /\ mpc' = "idle"
    /\ fr' = [fr EXCEPT ![Main] = IdleFrame]
    /\ UNCHANGED <<ctor, hcalls, first, pool, extract, sink, calls, snapshot, primary,
                   content, args, idx, futs, exc, softLeft, hist, seen,
                   primary0>>

\* the class body defines related_tags twice (lines 368 and 607); the name is
\* bound to the later definition, whose only parameter is `tag`
RelatedTagsParam == "tag"

\* related_tags(t) or related_tags(<kw>=t): a keyword the bound definition
\* does not have is a TypeError; otherwise the body of line 607 runs, which
\* returns dict(zip(tag, related_tags_res)) or, that result being empty, None
RelatedTags ==
    /\ mpc = "idle"
    /\ Len(hcalls) < MaxCalls
    /\ \E t \in Slugs, kw \in {"", "given_tag", "tag"} :
        /\ hcalls' = Append(hcalls, [op |-> "related_tags", slug |-> t, id |-> None,
                                      kw |-> kw])
        /\ IF kw \notin {"", RelatedTagsParam} THEN EndCall(Raised("TypeError"))
           ELSE \E kind \in {"dict", "None"} : EndCall(Value(kind, FALSE))
    /\ UNCHANGED <<ctor, first, pool, extract, sink, calls, snapshot, primary,
                   content, args, idx, futs, exc, softLeft, n200, nsucc, seen,
                   primary0>>

\* ------------------------------------------------------------ bulk fetchers
NewFuture(fn, h) ==
    [fn |-> fn, h |-> h, st |-> "pending", got |-> "none"]

Finished(f) == f.st \in {"ok", "exc"}
Unfinished(fs) == {k \in 1..Len(fs) : ~Finished(fs[k])}
Running(fs) == {k \in 1..Len(fs) : fs[k].st = "running"}

\* ... for article in articles if article.title is None
\* ... for user in users if user.fullname is None
NeedsInfoUnfiltered(h) == TRUE
NeedsInfo(h) == ~primary[h]

\* ... for article in articles  (the content wave takes every article)
NeedsContentFiltered(h) == ~primary[h]
NeedsContent(h) == TRUE

\* future.result() re-raises the exception of a failed operation
ResultRaisesNever(f) == FALSE
ResultRaises(f) == f.st = "exc"

\* ThreadPoolExecutor.__exit__: shutdown(wait=True) joins every worker
CanExitNoWait(fs) == TRUE
CanExit(fs) == Unfinished(fs) = {}

\* where the caller's thread stands once position i of phase pc is reached:
\* a comprehension that ran off its list is over, and `if content:` opens the
\* second one
Position(pc, i, a) ==
    LET waiting == <<"as_completed", 0>>
        second == IF a.content /\ Len(a.list) > 0 THEN <<"submit_content", 1>>
                  ELSE waiting
    IN  IF pc = "submit_info"
            THEN (IF i <= Len(a.list) THEN <<pc, i>> ELSE second)
        ELSE IF i <= Len(a.list) THEN <<pc, i>> ELSE waiting

Lists == UNION {[1..n -> Handles] : n \in 0..MaxLen}

\* entry of a bulk fetch: `with ThreadPoolExecutor(max_workers=100) as executor`
BulkCall(list, c) ==
    /\ mpc = "idle"
    /\ nops = 0
    /\ c => Len(list) <= MaxContentLen
    /\ args' = [list |-> list, content |-> c]
    /\ LET p == Position("submit_info", 1, args') IN
        /\ mpc' = p[1]
        /\ idx' = p[2]
    /\ primary0' = primary
    /\ softLeft' = MaxBulkSoft
    /\ UNCHANGED <<ctor, facade, first, pool, calls, snapshot, primary, content,
                   fr, futs, exc, mres, hist, seen>>

\* def fetch_articles(self, articles, content=False)
FetchArticles == \E list \in Lists, c \in BOOLEAN : BulkCall(list, c)

\* def fetch_users(self, users)
FetchUsers == \E list \in Lists : BulkCall(list, FALSE)

\* one element of [executor.submit(x.save_info) for x in xs if <unset>]
SubmitInfo ==
    /\ mpc = "submit_info"
    /\ LET h == args.list[idx] IN
        /\ seen' = Append(seen, ~primary[h])
        /\ futs' = IF NeedsInfo(h) THEN Append(futs, NewFuture("save_info", h))
                   ELSE futs
    /\ LET p == Position("submit_info", idx + 1, args) IN
        /\ mpc' = p[1]
        /\ idx' = p[2]
    /\ UNCHANGED <<ctor, facade, first, pool, calls, snapshot, primary, content,
                   fr, args, exc, mres, softLeft, hist, primary0>>

\* one element of [executor.submit(article.save_content) for article in articles]
SubmitContent ==
    /\ mpc = "submit_content"
    /\ LET h == args.list[idx] IN
        futs' = IF NeedsContent(h) THEN Append(futs, NewFuture("save_content", h))
                ELSE futs
    /\ LET p == Position("submit_content", idx + 1, args) IN
        /\ mpc' = p[1]
        /\ idx' = p[2]
    /\ UNCHANGED <<ctor, facade, first, pool, calls, snapshot, primary, content,
                   fr, args, exc, mres, softLeft, hist, seen, primary0>>

\* ThreadPoolExecutor(max_workers=100): the pool holds at most max_workers
\* worker threads, each executing one work item at a time
WorkerFreeAlways(running) == TRUE
WorkerFree(running) == running < max_workers

\* a pool worker takes the oldest queued work item and calls its function,
\* which enters __get_resp for the handle's endpoint
TaskStart(k) ==
    /\ k \in 1..Len(futs)
    /\ futs[k].st = "pending"
    /\ \A j \in 1..(k - 1) : futs[j].st # "pending"
    /\ WorkerFree(Cardinality(Running(futs)))
    /\ futs' = [futs EXCEPT ![k].st = "running"]
    /\ fr' = [fr EXCEPT ![k] = EntryFrame]
    /\ UNCHANGED <<ctor, facade, first, pool, calls, snapshot, primary, content,
                   mpc, args, idx, exc, mres, softLeft, hist, seen, primary0>>

\* for future in as_completed(future_to_url): future.result()
\* the loop ends when result() raises for a finished future ...
AsCompletedRaises ==
    /\ mpc = "as_completed"
    /\ \E k \in 1..Len(futs) :
        /\ Finished(futs[k])
        /\ ResultRaises(futs[k])
        /\ exc' = k
    /\ mpc' = "shutdown"
    /\ UNCHANGED <<ctor, facade, first, pool, calls, snapshot, primary, content,
                   fr, args, idx, futs, mres, softLeft, hist, seen, primary0>>

\* ... or when every future was yielded and its result() returned
AsCompletedEnds ==
    /\ mpc = "as_completed"
    /\ \A k \in 1..Len(futs) : Finished(futs[k]) /\ ~ResultRaises(futs[k])
    /\ mpc' = "shutdown"
    /\ UNCHANGED <<ctor, facade, first, pool, calls, snapshot, primary, content,
                   fr, args, idx, futs, exc, mres, softLeft, hist, seen,
                   primary0>>

\* how the bulk fetch ends: the exception of future.result() leaves the
\* `with` block and reaches the caller, else the function returns None
ExitOutcomeRaising(e) == "raised"
ExitOutcome(e) == IF e # 0 THEN "raised" ELSE "returned"

\* leaving `with ThreadPoolExecutor(...) as executor`, then back to the caller
ExecutorExit ==
    /\ mpc = "shutdown"
    /\ CanExit(futs)
    /\ mpc' = "done"
    /\ mres' = ExitOutcome(exc)
    /\ UNCHANGED <<ctor, facade, first, pool, calls, snapshot, primary, content,
                   fr, args, idx, futs, exc, softLeft, hist, seen, primary0>>

\* the caller calls the same bulk fetch once more on the list it passed
\* before, without content: a new executor and a new future_to_url, while the
\* handles keep what the first call wrote into them
FetchAgain ==
    /\ mpc = "done"
    /\ ~first.called
    /\ ~args.content
    /\ first' = [called |-> TRUE,
                 ok |-> \A k \in 1..Len(futs) :
                            futs[k].st = "ok" /\ futs[k].got = "json",
                 calls |-> calls,
                 nfuts |-> Len(futs)]
    /\ LET p == Position("submit_info", 1, args) IN
        /\ mpc' = p[1]
        /\ idx' = p[2]
    /\ futs' = <<>>
    /\ seen' = <<>>
    /\ exc' = 0
    /\ mres' = "none"
    /\ primary0' = primary
    /\ UNCHANGED <<ctor, facade, pool, calls, snapshot, primary, content, fr,
                   args, softLeft, hist>>

\* ------------------------------------------------------ extract_article_id
\* Strings are sequences over an alphabet of character classes: "S" is the
\* text https:// (or http://), "a" an alphanumeric character, " " a whitespace
\* character, "?" one of ? and #, "." any other character, and "-", "/", ";"
\* themselves.
Alphabet == {"S", "a", "-", "/", ";", "?", " ", "."}
Strings == UNION {[1..n -> Alphabet] : n \in 0..MaxUrlLen}

NoId == [none |-> TRUE, id |-> <<>>]
NoExtract == [url |-> <<>>, ret |-> NoId, done |-> FALSE]

Least(I) == CHOOSE i \in I : \A j \in I : i <= j
\* str.find: the first position from `from` on holding one of cs, else Len + 1
FindFirst(str, cs, from) ==
    LET I == {i \in from..Len(str) : str[i] \in cs}
    IN  IF I = {} THEN Len(str) + 1 ELSE Least(I)
\* str.rfind: the last position holding one of cs, else 0
FindLast(str, cs) ==
    LET I == {i \in 1..Len(str) : str[i] \in cs}
    IN  IF I = {} THEN 0 ELSE CHOOSE i \in I : \A j \in I : j <= i
From(str, i) == SubSeq(str, i, Len(str))
Upto(str, i) == SubSeq(str, 1, i)

\* where re.findall(r'(https?://[^\s]+)', article_url) finds its first match:
\* the leftmost https:// followed by a non-whitespace character (0: none)
MatchStart(str) ==
    LET I == {i \in 1..(Len(str) - 1) : str[i] = "S" /\ str[i + 1] # " "}
    IN  IF I = {} THEN 0 ELSE Least(I)

RECURSIVE Spelled(_)
\* the characters of a text that follows a scheme: a further https:// in it
\* is the text https: and two slashes
Spelled(str) ==
    IF str = <<>> THEN <<>>
    ELSE (IF Head(str) = "S" THEN <<".", "/", "/">> ELSE <<Head(str)>>)
         \o Spelled(Tail(str))

\* urls[0] without its scheme and '//': the match runs to the next whitespace
UrlRest(str) ==
    LET i == MatchStart(str)
    IN  Spelled(SubSeq(str, i + 1, FindFirst(str, {" "}, i + 1) - 1))

\* urlsplit: the netloc ends before the first of / ? #, and the path before
\* the first of ? #
SplitPath(rest) ==
    LET tail == From(rest, FindFirst(rest, {"/", "?"}, 1))
    IN  Upto(tail, FindFirst(tail, {"?"}, 1) - 1)

\* urlparse, for the schemes that use params: _splitparams cuts the path at
\* the first ';' of its last segment
SplitParams(path) ==
    LET i == FindFirst(path, {";"}, FindLast(path, {"/"}) + 1)
    IN  Upto(path, i - 1)

\* str.isalnum()
IsAlnum(str) == str # <<>> /\ \A i \in 1..Len(str) : str[i] = "a"

\* str.split(c)[-1]
AfterFirst(str, c) == From(str, FindFirst(str, {c}, 1) + 1)
AfterLast(str, c) == From(str, FindLast(str, {c}) + 1)

\* def extract_article_id(self, article_url)
extract_article_id(article_url) ==
    IF MatchStart(article_url) = 0 THEN NoId
    ELSE LET urlpath == SplitParams(SplitPath(UrlRest(article_url)))
             last_location == AfterLast(urlpath, "/")
             article_id == AfterLast(last_location, "-")
         IN  IF urlpath # <<>> /\ IsAlnum(article_id)
             THEN [none |-> FALSE, id |-> article_id]
             ELSE NoId

\* the caller's call of extract_article_id on the string it holds
ExtractCall ==
    /\ ~extract.done
    /\ extract' = [extract EXCEPT !.ret = extract_article_id(extract.url),
                                   !.done = TRUE]
    /\ UNCHANGED <<ctor, hcalls, outs, sink, first, pool, calls, snapshot, primary,
                   content, fr, mpc, args, idx, futs, exc, mres, softLeft, hist,
                   seen, primary0>>

\* ------------------------------------- users_id, users_info, user_articles
\* an argument left at None, or given as a list (a single string is wrapped
\* into a one-element list before it is used)
Absent == [given |-> FALSE, list |-> <<>>]
Given(list) == [given |-> TRUE, list |-> list]
NameArgs ==
    {Absent} \cup {Given(l) : l \in UNION {[1..n -> Usernames] : n \in 1..MaxNames}}
IdArgs ==
    {Absent} \cup {Given(l) : l \in UNION {[1..n -> Ids] : n \in 1..MaxNames}}

\* the id in the body the service answers to /user/id_for/{username}
UserId == [u \in Usernames |->
              IF u = "nishu-jain" THEN "1985b61817c3" ELSE "98111c9905da"]

\* get_urls(endpoint, key, args): zip([endpoint]*len(args), args) takes what
\* iterating args yields, and format puts it into the endpoint's placeholder
Url(endpoint, arg) == [endpoint |-> endpoint, arg |-> arg]
get_urls(endpoint, items) == [i \in 1..Len(items) |-> Url(endpoint, items[i])]

RECURSIVE Keys(_)
\* the keys of dict(zip(list, ...)), which is also what iterating the dict
\* yields: the elements of list in the order of their first occurrence
Keys(list) ==
    IF list = <<>> THEN <<>>
    ELSE LET before == Keys(Upto(list, Len(list) - 1))
             last == list[Len(list)]
         IN  IF \E i \in 1..Len(before) : before[i] = last THEN before
             ELSE Append(before, last)

\* users_id(username): one id_for URL per username goes to self.pipeline; a
\* non-empty result becomes dict(zip(username, user_ids_res)), an empty one
\* makes the function return None
NoDict == [none |-> TRUE, keys |-> <<>>, values |-> <<>>]
users_id(username, answered) ==
    IF answered /\ username # <<>>
    THEN [none |-> FALSE, keys |-> Keys(username),
          values |-> [i \in 1..Len(Keys(username)) |-> UserId[Keys(username)[i]]]]
    ELSE NoDict

NoSink == [op |-> None, username |-> Absent, user_id |-> Absent, lookup |-> NoDict,
           urls |-> <<>>, out |-> None]

\* users_info / user_articles: the assert, user_id taken from users_id when
\* it is None, get_urls over user_id, self.pipeline, and the result
\* dict(zip(user_id, ...)) or None. len(None) in get_urls is a TypeError
SinkCall(op, endpoint, username, user_id) ==
    /\ sink = NoSink
    /\ \E answered, informed \in BOOLEAN :
        LET lookup == IF user_id.given THEN NoDict
                      ELSE users_id(username.list, answered)
            items == IF user_id.given THEN user_id.list ELSE lookup.keys
            fails == ~user_id.given /\ lookup.none
            urls == IF fails THEN <<>> ELSE get_urls(endpoint, items)
        IN  sink' = [op |-> op, username |-> username, user_id |-> user_id,
                     lookup |-> lookup, urls |-> urls,
                     out |-> IF ~username.given /\ ~user_id.given THEN "AssertionError"
                             ELSE IF fails THEN "TypeError"
                             ELSE IF informed /\ urls # <<>> THEN "dict"
                             ELSE None]
    /\ UNCHANGED <<ctor, hcalls, outs, extract, first, pool, calls, snapshot,
                   primary, content, fr, mpc, args, idx, futs, exc, mres, softLeft,
                   hist, seen, primary0>>

\* def users_info(self, username=None, user_id=None)
UsersInfo ==
    \E username \in NameArgs, user_id \in IdArgs :
        SinkCall("users_info", "/user/{user_id}", username, user_id)

\* def user_articles(self, username=None, user_id=None)
UserArticles ==
    \E username \in NameArgs, user_id \in IdArgs :
        SinkCall("user_articles", "/user/{user_id}/articles", username, user_id)

\* ------------------------------------- a bulk fetch larger than the pool
\* The operations of one bulk fetch are interchangeable for the pool, so a
\* fetch of more than max_workers operations is followed by counting them:
\* submitted (executor.submit returned), started (a worker took the work
\* item from the queue), finished (the operation returned or raised).
PoolRunning == pool.started - pool.finished
PoolQueued == pool.submitted - pool.started

\* executor.submit(...): the work item joins the queue
PoolSubmit ==
    /\ pool.submitted < MaxPoolOps
    /\ pool' = [pool EXCEPT !.submitted = @ + 1]
    /\ UNCHANGED <<ctor, facade, first, calls, snapshot, primary, content, fr,
                   mpc, args, idx, futs, exc, mres, softLeft, hist, seen,
                   primary0>>

\* a worker that executes nothing takes the oldest queued work item
PoolStart ==
    /\ PoolQueued > 0
    /\ WorkerFree(PoolRunning)
    /\ pool' = [pool EXCEPT !.started = @ + 1]
    /\ UNCHANGED <<ctor, facade, first, calls, snapshot, primary, content, fr,
                   mpc, args, idx, futs, exc, mres, softLeft, hist, seen,
                   primary0>>

\* an operation returns or raises; its worker goes back to the queue. The
\* executor is shut down with wait=True and cancels nothing, so this goes on
\* after future.result() raised in the caller's thread
PoolFinish ==
    /\ PoolRunning > 0
    /\ pool' = [pool EXCEPT !.finished = @ + 1]
    /\ UNCHANGED <<ctor, facade, first, calls, snapshot, primary, content, fr,
                   mpc, args, idx, futs, exc, mres, softLeft, hist, seen,
                   primary0>>

\* ---------------------------------------------------------- specifications
NoArgs == [list |-> <<>>, content |-> FALSE]

NoFirst == [called |-> FALSE, ok |-> FALSE, calls |-> 0, nfuts |-> 0]
NoPool == [submitted |-> 0, started |-> 0, finished |-> 0]

\* MediumClient.__init__(rapidapi_key, calls=c), and the handles the caller
\* holds. __init__ takes calls and assigns no self.calls: the attribute exists
\* only if the base class AsyncHttpMixin (imported, not part of this file)
\* provides it, and then with the documented start value 0
Construct(c) ==
    /\ calls_arg = c
    /\ hasCalls \in BOOLEAN
    /\ calls = 0
    /\ snapshot = [call_counts |-> "None", call_count_limit |-> "None",
                   remaining_calls |-> "None"]
    /\ primary \in [Handles -> BOOLEAN]
    /\ content = [h \in Handles |-> FALSE]
    /\ fr = [t \in Threads |-> IdleFrame]
    /\ mpc = "idle"
    /\ args = NoArgs
    /\ idx = 0
    /\ futs = <<>>
    /\ exc = 0
    /\ mres = "none"
    /\ softLeft = 0
    /\ nops = 0
    /\ n200 = 0
    /\ nsucc = 0
    /\ seen = <<>>
    /\ primary0 = primary
    /\ hcalls = <<>>
    /\ outs = <<>>
    /\ first = NoFirst
    /\ pool = NoPool

\* MediumClient(rapidapi_key): calls keeps its default
Init == Construct(0) /\ extract = NoExtract /\ sink = NoSink

GetStep(t) ==
    \/ GetRequest(t)
    \/ GetRequestRaises(t)
    \/ GetStoreCalls(t)

\* a caller issuing direct requests one after the other
NextGet ==
    \/ MainGet
    \/ MainGetReturn
    \/ GetStep(Main)

SpecGet == Init /\ [][NextGet]_vars

\* a caller passing a string to extract_article_id
InitExtract ==
    /\ Construct(0)
    /\ hasCalls
    /\ \A h \in Handles : ~primary[h]
    /\ extract \in {[NoExtract EXCEPT !.url = str] : str \in Strings}
    /\ sink = NoSink

NextExtract == ExtractCall

SpecExtract == InitExtract /\ [][NextExtract]_vars

\* a caller calling users_info and user_articles
InitSink == Init /\ hasCalls /\ \A h \in Handles : ~primary[h]

NextSink ==
    \/ UsersInfo
    \/ UserArticles

SpecSink == InitSink /\ [][NextSink]_vars

\* a caller constructing the client with some `calls` and then calling user,
\* users, publication and related_tags one after the other
InitAny ==
    (\E c \in CallsArgs : Construct(c)) /\ extract = NoExtract /\ sink = NoSink
InitFacade == InitAny /\ \A h \in Handles : ~primary[h]

NextFacade ==
    \/ User
    \/ Users
    \/ Publication
    \/ RelatedTags
    \/ LookupReturn
    \/ GetStep(Main)

SpecFacade == InitFacade /\ [][NextFacade]_vars

\* a caller running one bulk fetch, and then the same one again
Next ==
    \/ FetchArticles
    \/ FetchUsers
    \/ SubmitInfo
    \/ SubmitContent
    \/ \E k \in 1..MaxFutures : TaskStart(k) \/ GetStep(k)
    \/ AsCompletedRaises
    \/ AsCompletedEnds
    \/ ExecutorExit
    \/ FetchAgain

Spec == Init /\ [][Next]_vars

\* the steps that are not the caller's choice: those of the bulk fetch in
\* progress and of its pool threads, and those of a direct call in progress
BulkProgress ==
    \/ SubmitInfo
    \/ SubmitContent
    \/ \E k \in 1..MaxFutures : TaskStart(k) \/ GetStep(k)
    \/ AsCompletedRaises
    \/ AsCompletedEnds
    \/ ExecutorExit
GetProgress == GetStep(Main) \/ MainGetReturn

\* the operations a bulk fetch with arguments a is going to submit
Workload(a) ==
    Cardinality({i \in 1..Len(a.list) : ~primary[a.list[i]]})
    + (IF a.content THEN Len(a.list) ELSE 0)

\* a caller that either issues direct requests or runs one bulk fetch, of at
\* most MaxLen operations
NextAny ==
    \/ NextGet
    \/ (FetchArticles \/ FetchUsers) /\ Workload(args') <= MaxLen
    \/ BulkProgress

\* every thread is scheduled again and again, and every transport request is
\* answered or fails: no step that is possible is put off forever
SpecFair ==
    Init /\ [][NextAny]_vars /\ WF_vars(BulkProgress) /\ WF_vars(GetProgress)

\* a caller running one bulk fetch of more operations than the pool has
\* workers, on a client whose counter exists and with no handle populated
InitPool == Init /\ hasCalls /\ \A h \in Handles : ~primary[h]

NextPool ==
    \/ PoolSubmit
    \/ PoolStart
    \/ PoolFinish

SpecPool == InitPool /\ [][NextPool]_vars

\* the operating system schedules every worker thread, and an operation that
\* was started ends, its requests being answered
SpecPoolFair == SpecPool /\ WF_vars(PoolStart) /\ WF_vars(PoolFinish)

\* ------------------------------------------------------------------ claims
\* the frame and the event trace of the caller's direct __get_resp call
MainFrame == fr[Main]
MainTrace == fr[Main].trace
AllSoft(tr) == \A i \in Requests(tr) : Soft(tr[i])
\* the direct call received soft errors only and its last one is handled
Exhausted ==
    /\ Cardinality(Requests(MainTrace)) = 4
    /\ AllSoft(MainTrace)
    /\ MainFrame.pc # "store"

\* C1: a call of __get_resp never makes a 5th transport request; requests and
\* sleeps alternate, every sleep lasting 5 units; and a call whose responses
\* were all 200 with the error key ends after exactly 4 requests with exactly
\* 3 sleeps, one between each two consecutive requests.
C1_FourRequestsThreeSleeps ==
    /\ Cardinality(Requests(MainTrace)) <= 4
    /\ \A i \in 1..Len(MainTrace) :
        IF i % 2 = 1 THEN MainTrace[i].ev = "request"
        ELSE MainTrace[i].ev = "sleep" /\ MainTrace[i].secs = 5
    /\ (MainFrame.pc \in {"returned", "raised"} /\ AllSoft(MainTrace)) =>
        /\ Cardinality(Requests(MainTrace)) = 4
        /\ Cardinality(Sleeps(MainTrace)) = 3
        /\ Len(MainTrace) = 7

\* C2: a response with a status other than 200 is the last event of its call,
\* on the first attempt as after soft-error retries: the call has returned
\* the empty mapping together with that status.
C2_Non200EndsCall ==
    \A i \in Requests(MainTrace) :
        MainTrace[i].status \notin {0, 200} =>
            /\ i = Len(MainTrace)
            /\ MainFrame.pc = "returned"
            /\ MainFrame.ret = [body |-> "empty", status |-> MainTrace[i].status]

C2_Witness ==
    /\ Len(MainTrace) = 3
    /\ MainTrace[3].status = 500
    /\ MainFrame.pc = "returned"
    /\ MainFrame.ret.body = "empty"

\* C3: once the 4th consecutive soft error is handled the call has returned
\* the empty mapping (with status 200), and the caller got it as a normal
\* return value, not as an exception.
C3_ExhaustionReturnsEmpty ==
    Exhausted =>
        /\ MainFrame.pc = "returned"
        /\ MainFrame.ret = [body |-> "empty", status |-> 200]
        /\ mpc = "idle" => mres = "returned"

C3_Witness == Exhausted /\ mpc = "idle" /\ mres = "returned"

\* status-200 responses of the call in progress that are counted already
CountedInFlight ==
    IF mpc = "get"
    THEN Cardinality({i \in Requests(MainTrace) : MainTrace[i].status = 200})
         - (IF MainFrame.pc = "store" THEN 1 ELSE 0)
    ELSE 0

\* C4 as stated: after any sequence of calls the counter's increase equals
\* the number of calls that returned a successful body.
C4_CountsSuccessfulCallsOnly == mpc = "idle" => calls = nsucc

\* C4 as amended: the counter's increase equals the number of status-200
\* responses received, soft errors included; responses with another status
\* (and requests that raise) do not count; and on a client without the
\* attribute no counter ever comes to exist.
C4_CountsEvery200Response ==
    IF hasCalls THEN calls = n200 + CountedInFlight ELSE calls = 0

C4_Witness ==
    /\ mpc = "idle"
    /\ nops = 2
    /\ nsucc = 1
    /\ calls = 3
    /\ MainFrame.ret.status = 500

\* the values of the three headers named by call_count_key,
\* call_count_limit_key and call_limit_remaining_key in a response
RespHeaders == [call_counts |-> "x-amzn-requestid",
                call_count_limit |-> "X-RateLimit-All-endpoints-Limit",
                remaining_calls |-> "X-RateLimit-All-endpoints-Remaining"]

\* C6: after a successful response the budget snapshot holds that response's
\* three header values; after one successful call on a fresh client the
\* counter is 1 and the snapshot is no longer unset.
C6_SnapshotHoldsHeaders ==
    (MainFrame.pc = "returned" /\ MainFrame.ret.body = "json") =>
        /\ snapshot = RespHeaders
        /\ (nops = 1 /\ Len(MainTrace) = 1) =>
            (calls = 1 /\ snapshot.call_counts # "None")

\* the save_info / save_content futures among those submitted, in order
InfoFuts == SelectSeq(futs, LAMBDA f : f.fn = "save_info")
ContentFuts == SelectSeq(futs, LAMBDA f : f.fn = "save_content")
HandlesOf(fs) == [i \in 1..Len(fs) |-> fs[i].h]
RECURSIVE Picked(_, _, _)
\* the elements of list at those of its first n positions that are flagged
Picked(list, flags, n) ==
    IF n = 0 THEN <<>>
    ELSE IF flags[n] THEN Append(Picked(list, flags, n - 1), list[n])
    ELSE Picked(list, flags, n - 1)
NoRepeats(list) ==
    \A i, j \in 1..Len(list) : list[i] = list[j] => i = j
Submitted == mpc \in {"as_completed", "shutdown", "done"}

\* C5: when the populate operations of a bulk fetch each received exactly one
\* response, a successful one, the counter has increased by their number once
\* the fetch is over.
C5_NoLostIncrement ==
    (mpc = "done" /\ softLeft = MaxBulkSoft
        /\ \A k \in 1..Len(futs) : futs[k].fn = "save_info" /\ futs[k].got = "json")
    => calls = Len(futs)

\* C7: the populate operations dispatched are, in order, those of the input
\* positions whose handle had its primary field unset when the position was
\* examined, so a handle whose field is set is never dispatched; for an input
\* without repeated handles these are the handles unset when the fetch was
\* called; and after submission every position was examined.
C7_DispatchesUnpopulatedOnly ==
    /\ Len(seen) <= Len(args.list)
    /\ HandlesOf(InfoFuts) = Picked(args.list, seen, Len(seen))
    /\ Len(InfoFuts) = Cardinality({i \in 1..Len(seen) : seen[i]})
    /\ NoRepeats(args.list) =>
        \A i \in 1..Len(seen) : seen[i] = ~primary0[args.list[i]]
    /\ Submitted => Len(seen) = Len(args.list)

C7_Witness ==
    /\ mpc = "done"
    /\ Len(args.list) = 2
    /\ primary0[args.list[1]]
    /\ ~primary0[args.list[2]]
    /\ Len(InfoFuts) = 1
    /\ InfoFuts[1].h = args.list[2]

\* C8: when a bulk fetch has handed control back, by return or by exception,
\* every operation it submitted has completed.
C8_ReturnsAfterAllCompleted ==
    mpc = "done" =>
        /\ mres \in {"returned", "raised"}
        /\ \A k \in 1..Len(futs) : Finished(futs[k])
        /\ \A t \in Threads : fr[t].pc = "idle"

C8_Witness ==
    /\ mpc = "done"
    /\ mres = "raised"
    /\ Len(futs) = 2
    /\ \A k \in 1..2 : futs[k].st = "exc"

\* the handle field an operation fills
Filled(f) == IF f.fn = "save_info" THEN primary[f.h] ELSE content[f.h]

\* C9: when a bulk fetch is over, it raised iff some operation raised, the
\* error raised is that of one of the failed operations, every operation has
\* run, and every operation that obtained a body left its handle populated.
C9_PartialFailureKeepsSuccesses ==
    mpc = "done" =>
        /\ mres = "raised" <=> \E k \in 1..Len(futs) : futs[k].st = "exc"
        /\ mres = "raised" => (exc \in 1..Len(futs) /\ futs[exc].st = "exc")
        /\ mres = "returned" => exc = 0
        /\ \A k \in 1..Len(futs) :
            /\ Finished(futs[k])
            /\ (futs[k].st = "ok" /\ futs[k].got = "json") => Filled(futs[k])

C9_Witness ==
    /\ mpc = "done"
    /\ mres = "raised"
    /\ Len(futs) = 2
    /\ \E k \in 1..2 :
        /\ futs[k].st = "ok"
        /\ futs[k].got = "json"
        /\ ~primary0[futs[k].h]
        /\ primary[futs[k].h]

\* C10: with content requested the content-fetch operations submitted are one
\* per input position, in input order, whatever the handle's population state,
\* next to the populate operations; without it none is submitted.
C10_ContentWaveCoversEveryHandle ==
    /\ Len(futs) = Len(InfoFuts) + Len(ContentFuts)
    /\ ~args.content => ContentFuts = <<>>
    /\ mpc = "submit_info" => ContentFuts = <<>>
    /\ mpc = "submit_content" =>
        HandlesOf(ContentFuts) = SubSeq(args.list, 1, idx - 1)
    /\ (Submitted /\ args.content) => HandlesOf(ContentFuts) = args.list

C10_Witness ==
    /\ mpc = "done"
    /\ args.content
    /\ Len(args.list) = 1
    /\ primary0[args.list[1]]
    /\ Len(futs) = 1
    /\ futs[1].fn = "save_content"

\* the operations of the bulk fetch that are in flight
InFlight == Running(futs)

\* C11: at no moment of a bulk fetch do two operations that are in flight
\* together belong to the same handle, whose field mapping both write.
C11_NoConcurrentWritersOfOneHandle ==
    \A j, k \in InFlight : futs[j].h = futs[k].h => j = k

\* C12: at every moment at most 100 submitted operations are executing and an
\* operation waits in the queue only while all 100 workers are busy; and from
\* some moment on every operation that was submitted has been executed.
C12_AtMost100Executing ==
    /\ [](PoolRunning <= 100)
    /\ [](PoolQueued > 0 /\ PoolRunning < 100 => ENABLED PoolStart)
    /\ <>[](pool.finished = pool.submitted)

C12_Witness ==
    /\ pool.submitted > 100
    /\ PoolRunning = 100
    /\ PoolQueued > 0

\* C13: when every populate operation of a first bulk fetch without content
\* succeeded, a second fetch of the same list finds every handle of the list
\* populated, dispatches no operation, makes no transport request, leaves the
\* handles' fields and the call counter as they were, and returns normally.
C13_SecondFetchIsNoOp ==
    (first.called /\ first.ok) =>
        /\ \A i \in 1..Len(args.list) : primary0[args.list[i]]
        /\ futs = <<>>
        /\ \A t \in Threads : fr[t].pc = "idle"
        /\ primary = primary0
        /\ \A h \in Handles : ~content[h]
        /\ calls = first.calls
        /\ mpc = "done" => mres = "returned"

C13_Witness ==
    /\ first.called
    /\ first.ok
    /\ first.nfuts = 2
    /\ first.calls > 0
    /\ mpc = "done"

\* the calls of user, users and publication among those made, and those of
\* them that pass a slug / username and no id, or neither of the two
IdentityCalls == {i \in 1..Len(hcalls) : hcalls[i].op # "related_tags"}
SlugOnly == {i \in IdentityCalls : hcalls[i].id = None /\ hcalls[i].slug # None}
Anonymous == {i \in IdentityCalls : hcalls[i].id = None /\ hcalls[i].slug = None}
Ended == 1..Len(outs)

\* C14: a call that passes an id, with or without a slug, makes no lookup
\* call and ends with a handle of exactly that id; a call that passes only a
\* slug makes one lookup call, which is over before the handle is constructed,
\* and the handle has the id the lookup answered; nothing is cached, so the
\* lookup calls made are as many as the slug-only calls.
C14_IdentityResolutionOrder ==
    /\ nops = Cardinality(SlugOnly)
    /\ Len(outs) = IF mpc = "lookup" THEN Len(hcalls) - 1 ELSE Len(hcalls)
    /\ mpc = "lookup" => Len(hcalls) \in SlugOnly
    /\ mpc # "lookup" => fr[Main].pc = "idle"
    /\ \A i \in Ended \cap IdentityCalls :
        /\ hcalls[i].id # None => outs[i] = Handle(hcalls[i].id)
        /\ (i \in SlugOnly /\ outs[i].kind = "handle") =>
            outs[i].id = ServiceId[hcalls[i].slug]

C14_Witness ==
    /\ Len(outs) = 2
    /\ SlugOnly = {1, 2}
    /\ hcalls[1] = hcalls[2]
    /\ outs[1].kind = "handle"
    /\ outs[2].kind = "handle"
    /\ nops = 2

\* C15: a call of user, users or publication that passes neither an id nor a
\* slug ends with an exception, not with a return value, and makes no
\* transport request.
C15_MissingIdentityIsUsageError ==
    /\ \A i \in Ended \cap Anonymous : outs[i].kind = "raised"
    /\ (mpc = "lookup") => Len(hcalls) \notin Anonymous

\* C16: related_tags(given_tag=t) ends with a list of strings, the related
\* tags of t.
C16_RelatedTagsReturnsList ==
    \A i \in Ended :
        (hcalls[i].op = "related_tags" /\ hcalls[i].kw = "given_tag") =>
            outs[i].kind = "list"

\* the direct call in progress got one response so far, a status-200 one,
\* and has counted it
FirstCounted ==
    /\ nops = 1
    /\ fr[Main].pc \in {"request", "returned"}
    /\ Cardinality(Requests(fr[Main].trace)) = 1
    /\ fr[Main].trace[1].status = 200

\* C17: the client has its call counter from construction on; before any
\* request it equals the constructor's argument `calls`, and the first
\* counted response makes it that value plus 1.
C17_CounterReadableFromConstruction ==
    /\ hasCalls
    /\ nops = 0 => calls = calls_arg
    /\ FirstCounted => calls = calls_arg + 1

\* what C18 speaks of: a string holds a URL where https:// is followed by a
\* character other than whitespace; the URL's path is the path component of
\* its first URL as urlparse delimits it (after the host, before the params
\* of the last segment, the query and the fragment)
HasUrl(str) == \E i \in 1..(Len(str) - 1) : str[i] = "S" /\ str[i + 1] # " "
UrlPath(str) == SplitParams(SplitPath(UrlRest(str)))
\* the path ends in '-' followed by the alphanumeric id
EndsInId(path, id) ==
    \E k \in 1..Len(path) : path[k] = "-" /\ id = From(path, k + 1) /\ IsAlnum(id)
IdSuffixes(path) == {From(path, k + 1) : k \in 1..Len(path)}

EmptyFetch == mpc # "idle" /\ args.list = <<>>

\* C19: a bulk fetch on an empty list, with or without content, submits no
\* operation, makes no transport request, leaves counter, snapshot and handles
\* as they were, and returns normally.
C19_EmptyFetchIsNoOp ==
    EmptyFetch =>
        /\ mpc \in {"as_completed", "shutdown", "done"}
        /\ futs = <<>>
        /\ exc = 0
        /\ \A t \in Threads : fr[t] = IdleFrame
        /\ calls = 0
        /\ \A k \in DOMAIN snapshot : snapshot[k] = "None"
        /\ primary = primary0
        /\ \A h \in Handles : ~content[h]
        /\ mpc = "done" => mres = "returned"

C19_Witness ==
    /\ EmptyFetch
    /\ args.content
    /\ mpc = "done"
    /\ mres = "returned"

\* the responses of the direct call that are errors: a status other than 200,
\* or status 200 with the error key in the body
ErrorResponses ==
    {i \in Requests(MainTrace) : MainTrace[i].status \notin {0, 200} \/ Soft(MainTrace[i])}
Logged(i) == \E l \in 1..Len(MainFrame.printed) : MainFrame.printed[l].about = i

\* C20: when a call of the retrying GET has returned, a line was printed for
\* every error response it received, the soft errors it retried included.
C20_EveryErrorResponseLogged ==
    (mpc = "get" /\ MainFrame.pc = "returned") => \A i \in ErrorResponses : Logged(i)

RECURSIVE SleepTotal(_)
\* the time a call has slept so far
SleepTotal(trace) ==
    IF trace = <<>> THEN 0 ELSE Head(trace).secs + SleepTotal(Tail(trace))
BulkRunning == mpc \in {"submit_info", "submit_content", "as_completed", "shutdown"}

\* C21: a call of the retrying GET, on whatever thread and whatever its
\* responses, never makes more than 4 transport requests nor more than 3
\* sleeps, 15 time-units of sleep in all; every direct call in progress ends,
\* and every bulk fetch in progress hands control back to its caller.
C21_CallsAndFetchesTerminate ==
    /\ [](\A t \in Threads :
            /\ Cardinality(Requests(fr[t].trace)) <= 4
            /\ Cardinality(Sleeps(fr[t].trace)) <= 3
            /\ SleepTotal(fr[t].trace) <= 15)
    /\ (mpc = "get") ~> (mpc = "idle")
    /\ BulkRunning ~> (mpc = "done")

C21_Witness ==
    /\ mpc = "get"
    /\ MainFrame.pc = "returned"
    /\ Cardinality(Requests(MainTrace)) = 4
    /\ SleepTotal(MainTrace) = 15
    /\ MainTrace[Len(MainTrace)].status = 500

\* the lookup call of user / users / publication has returned the empty
\* mapping, after a status other than 200 or after the last soft error
DegradedLookup ==
    /\ mpc = "lookup"
    /\ fr[Main].pc = "returned"
    /\ fr[Main].ret.body = "empty"

\* C22: a call whose lookup ended in the empty mapping does not end with an
\* exception, and ends without constructing a handle.
C22_DegradedLookupDoesNotRaise ==
    [][DegradedLookup =>
        /\ Len(outs') = Len(outs) + 1
        /\ outs'[Len(outs')].kind \notin {"raised", "handle"}]_vars

\* the last call of users_info / user_articles passed usernames and no ids
ByUsername == sink.op # None /\ sink.username.given /\ ~sink.user_id.given

\* C23: a call that passes usernames and no ids builds one URL per requested
\* username, each holding the id that the lookup resolved for that username
\* and never the username; when the lookup yields nothing the call builds no
\* URL and does not fail.
C23_InfoUrlsUseResolvedIds ==
    ByUsername =>
        IF sink.lookup.none
        THEN sink.urls = <<>> /\ sink.out \notin {"TypeError", "AssertionError"}
        ELSE /\ Len(sink.urls) = Len(sink.lookup.keys)
             /\ \A i \in 1..Len(sink.urls) :
                 /\ sink.urls[i].arg = UserId[sink.lookup.keys[i]]
                 /\ sink.urls[i].arg \notin Usernames

====
